---- MODULE Spec2Model ----
(***************************************************************************)
(* Conversation engine of profGEM: the two Streamlit front ends app.py     *)
(* and app2.py, run side by side on the same user events, the same clock   *)
(* and the same remote API results.                                        *)
(*                                                                         *)
(* A Python string is modelled as a sequence of tokens; a token is a       *)
(* literal piece of an f-string, a formatted value, or the line break      *)
(* "\n".  Concatenation is \o, so a formatted message is built the way the *)
(* code builds it.  The emoji that open some literals are left out of the  *)
(* tokens.                                                                 *)
(*                                                                         *)
(* Not modelled: the page rendering, setup_model (the credential, the      *)
(* fixed system instruction and the safety settings of the model object)   *)
(* and session_state.chat, which app.py only ever sets to None.            *)
(***************************************************************************)
EXTENDS Naturals, Sequences, FiniteSets

VARIABLES
    messages,              \* st.session_state.messages, per variant
    conversation_started,  \* st.session_state.conversation_started, per variant
    pc,                    \* "idle", or "inflight": blocked in chat.send_message
    request,               \* what this script run handed to start_chat/send_message
    response,              \* the API result this script run's get_response consumed
    logfile,               \* the file this script run's save_conversation_log wrote
    clock,                 \* datetime.now(), in seconds
    lastOp,                \* the handler that ran last
    outcomes,              \* kinds of the submissions completed since the last reset
    stopped,               \* a script run was stopped in flight since the last reset
    preLen,                \* transcript length when this run's submission began
    restarted              \* a reset has discarded turns in this session

vars == <<messages, conversation_started, pc, request, response, logfile, clock,
          lastOp, outcomes, stopped, preLen, restarted>>

\* ------------------------------------------------------------------ bounds

MaxTurns == 4
MaxClock == 1

\* ------------------------------------------------------------------ domains

Variants == {"app", "app2"}

NL == "\n"

\* chat_input returns no empty prompt: every prompt has at least one token.
Prompts == {<<"ciao">>, <<"come", NL, "stai">>}

ProviderText == <<"risposta">>

Rating(c, p) == [category |-> c, probability |-> p]
TwoRatings == <<Rating("HARM_CATEGORY_HARASSMENT", "HIGH"),
                Rating("HARM_CATEGORY_HATE_SPEECH", "LOW")>>

\* A candidate: its finish_reason, its text parts (none: response.text raises),
\* and its safety_ratings attribute, which may be absent (hasattr).
Candidate(fr, ps, has, sr) ==
    [finish_reason |-> fr, parts |-> ps, has_ratings |-> has, safety_ratings |-> sr]

\* finish_reason codes the provider can send: 0..5 of the table, 6 not in it.
FinishCodes == 0..6

\* The codes the results below carry, one for each way get_response treats a code:
\* STOP, MAX_TOKENS, SAFETY, RECITATION (as UNSPECIFIED and OTHER: in the table,
\* unexpected) and 6 (not in the table).
SentCodes == {1, 2, 3, 4, 6}

Ok(cands) == [kind |-> "ok", candidates |-> cands, msg |-> <<>>, etype |-> ""]
Failure(m, t) == [kind |-> "fail", candidates |-> <<>>, msg |-> m, etype |-> t]

\* What chat.send_message can do: raise, or return a response with zero or more
\* candidates.
Results ==
    {Failure(<<"503 timeout">>, "ServiceUnavailable")}
    \cup {Ok(<<>>)}
    \cup {Ok(<<Candidate(fr, <<ProviderText>>, FALSE, <<>>)>>) : fr \in SentCodes}
    \cup {Ok(<<Candidate(fr, <<>>, FALSE, <<>>)>>) : fr \in SentCodes \ {3, 6}}
    \cup {Ok(<<Candidate(3, <<>>, TRUE, TwoRatings)>>)}
    \cup {Ok(<<Candidate(1, <<ProviderText>>, FALSE, <<>>),
               Candidate(3, <<>>, FALSE, <<>>)>>)}

NoRequest == [history |-> <<>>, message |-> <<>>]
NoResponse == [kind |-> "none", candidates |-> <<>>, msg |-> <<>>, etype |-> ""]
NoFile == [name |-> <<>>, text |-> <<>>]

\* ------------------------------------------------------------------ strings

\* str.upper() on the two role names.
Upper(role) == IF role = "user" THEN "USER" ELSE "ASSISTANT"

\* datetime.now().strftime(...) for the three formats the code uses.
StrfHMS(t) == <<"00:00:00", "00:00:01", "00:00:02", "00:00:03", "00:00:04">>[t + 1]
StrfStamp(t) ==
    <<"20260101_000000", "20260101_000001", "20260101_000002", "20260101_000003",
      "20260101_000004">>[t + 1]
StrfDate(t) ==
    <<"01/01/2026 00:00:00", "01/01/2026 00:00:01", "01/01/2026 00:00:02",
      "01/01/2026 00:00:03", "01/01/2026 00:00:04">>[t + 1]

\* f"{finish_reason_code}": the enum formats as its integer value.
CodeStr(c) == <<"0", "1", "2", "3", "4", "5", "6">>[c + 1]

RECURSIVE Concat(_)
Concat(ss) == IF ss = <<>> THEN <<>> ELSE Head(ss) \o Concat(Tail(ss))

\* ------------------------------------------------------------------ turns

Turn(role, content, timestamp) ==
    [role |-> role, content |-> content, timestamp |-> timestamp]

UserTurn(prompt, now) == Turn("user", prompt, StrfHMS(now))

\* Mutant: the response is stored under the user role.
AssistantTurnAsUser(text, now) == Turn("user", text, StrfHMS(now))

AssistantTurn(text, now) == Turn("assistant", text, StrfHMS(now))

\* Mutant: messages.insert(0, turn) instead of messages.append(turn).
PrependTurn(msgs, turn) == <<turn>> \o msgs

AppendTurn(msgs, turn) == Append(msgs, turn)

\* Mutant: the reset drops the last exchange only.
DropLastExchange(msgs) == IF Len(msgs) <= 2 THEN <<>> ELSE SubSeq(msgs, 1, Len(msgs) - 2)

\* st.session_state.messages = []
ClearedMessages(msgs) == <<>>

\* ------------------------------------------------------------------ get_response

\* The history loop: every message of the session, in order.
chat_history(msgs) ==
    [i \in 1..Len(msgs) |->
        [role |-> IF msgs[i].role = "user" THEN "user" ELSE "model",
         parts |-> <<msgs[i].content>>]]

\* response.text: the text of the first candidate, or a ValueError without parts.
HasText(resp) == resp.candidates[1].parts # <<>>
ResponseText(resp) == Concat(resp.candidates[1].parts)
TextError == Failure(<<"response.text requires a valid Part, but none were returned">>,
                     "ValueError")

\* app.py: FINISH_REASONS, defined and never read.
FINISH_REASONS ==
    [c \in 0..5 |->
        <<"FINISH_REASON_UNSPECIFIED", "STOP", "MAX_TOKENS", "SAFETY", "RECITATION",
          "OTHER">>[c + 1]]

\* app.py: except Exception as e.
ErrorTurn(e) == <<"Errore: ">> \o e.msg

\* Mutant: only a STOP response's text is returned; any other finish is reported.
get_responseStopOnly(resp) ==
    IF resp.kind = "fail" THEN ErrorTurn(resp)
    ELSE IF resp.candidates = <<>>
    THEN <<"Risposta bloccata dai filtri di sicurezza. Prova a riformulare.">>
    ELSE IF resp.candidates[1].finish_reason # 1
    THEN <<"Risposta bloccata per motivi di sicurezza. Prova con una domanda diversa.">>
    ELSE IF HasText(resp) THEN ResponseText(resp)
    ELSE ErrorTurn(TextError)

\* app.py get_response, from the result of chat.send_message on.
get_response(resp) ==
    IF resp.kind = "fail" THEN ErrorTurn(resp)
    ELSE IF resp.candidates = <<>>
    THEN <<"Risposta bloccata dai filtri di sicurezza. Prova a riformulare.">>
    ELSE IF resp.candidates[1].finish_reason = 3
    THEN <<"Risposta bloccata per motivi di sicurezza. Prova con una domanda diversa.">>
    ELSE IF HasText(resp) THEN ResponseText(resp)
    ELSE ErrorTurn(TextError)

\* app2.py: FINISH_REASONS.
FINISH_REASONS2 ==
    [c \in 0..5 |->
        <<"FINISH_REASON_UNSPECIFIED - Motivo non specificato",
          "STOP - Completamento normale",
          "MAX_TOKENS - Limite di token raggiunto",
          "SAFETY - Bloccato per motivi di sicurezza",
          "RECITATION - Contenuto potenzialmente copiato",
          "OTHER - Altro motivo">>[c + 1]]

\* FINISH_REASONS.get(code, 'Sconosciuto')
FinishReasonGet(c) ==
    IF c \in DOMAIN FINISH_REASONS2 THEN FINISH_REASONS2[c] ELSE "Sconosciuto"

\* for code, description in FINISH_REASONS.items(): "- {code} = {description}\n"
RECURSIVE TableFrom(_)
TableFrom(c) ==
    IF c \notin DOMAIN FINISH_REASONS2 THEN <<>>
    ELSE <<"- ", CodeStr(c), " = ", FINISH_REASONS2[c], NL>> \o TableFrom(c + 1)
\* Mutant: the loop skips the first entry of the table.
FinishReasonTableFromOne == TableFrom(1)

FinishReasonTable == TableFrom(0)

\* for rating in candidate.safety_ratings: "- {category}: {probability}\n"
RECURSIVE RatingLines(_)
RatingLines(rs) ==
    IF rs = <<>> THEN <<>>
    ELSE <<"- ", Head(rs).category, ": ", Head(rs).probability, NL>>
         \o RatingLines(Tail(rs))

\* Mutant: the handler reports the exception's type and drops its message.
ErrorTurn2NoMessage(e) ==
    <<"**Errore:** ", NL, NL, "Tipo errore: ", e.etype, NL, NL,
      "**Codici finish_reason possibili:**", NL>> \o TableFrom(0)

\* app2.py: except Exception as e.
ErrorTurn2(e) ==
    <<"**Errore:** ">> \o e.msg \o <<NL, NL, "Tipo errore: ", e.etype, NL, NL,
      "**Codici finish_reason possibili:**", NL>> \o FinishReasonTable

BlockedNoCandidates2 ==
    <<"Risposta bloccata dai filtri di sicurezza. Prova a riformulare la domanda.",
      NL, NL, "**Codici finish_reason:**", NL>> \o FinishReasonTable

BlockedSafety2(cand) ==
    <<"**Risposta bloccata per motivi di sicurezza**", NL, NL,
      "Finish reason code: ", CodeStr(cand.finish_reason), " = ",
      FinishReasonGet(cand.finish_reason), NL, NL>>
    \o (IF cand.has_ratings
        THEN <<"**Valutazioni di sicurezza:**", NL>> \o RatingLines(cand.safety_ratings)
        ELSE <<>>)

TruncatedPrefix2 == <<"**Risposta troncata - limite token raggiunto**", NL, NL>>

AnomalousPrefix2(cand) ==
    <<"**Risposta terminata in modo inaspettato**", NL, NL,
      "Finish reason code: ", CodeStr(cand.finish_reason), " = ",
      FinishReasonGet(cand.finish_reason), NL, NL>>

\* app2.py get_response, from the result of chat.send_message on.
get_response2(resp) ==
    IF resp.kind = "fail" THEN ErrorTurn2(resp)
    ELSE IF resp.candidates = <<>> THEN BlockedNoCandidates2
    ELSE LET cand == resp.candidates[1] IN
         IF cand.finish_reason = 3 THEN BlockedSafety2(cand)
         ELSE IF cand.finish_reason = 2
         THEN IF HasText(resp) THEN TruncatedPrefix2 \o ResponseText(resp)
              ELSE ErrorTurn2(TextError)
         ELSE IF cand.finish_reason # 1
         THEN IF HasText(resp) THEN AnomalousPrefix2(cand) \o ResponseText(resp)
              ELSE AnomalousPrefix2(cand)
         ELSE IF HasText(resp) THEN ResponseText(resp)
         ELSE ErrorTurn2(TextError)

GetResponse(v, resp) == IF v = "app" THEN get_response(resp) ELSE get_response2(resp)

\* ------------------------------------------------------------------ export

MODEL_NAME == "gemini-3-pro-preview"

RECURSIVE TurnLines(_)
TurnLines(msgs) ==
    IF msgs = <<>> THEN <<>>
    ELSE <<"[", Head(msgs).timestamp, "] ", Upper(Head(msgs).role), ": ">>
         \o Head(msgs).content \o <<NL>> \o TurnLines(Tail(msgs))

LogHeader(now) ==
    <<"=== Conversazione del ", StrfDate(now), " ===", NL,
      "Modello: ", MODEL_NAME, NL,
      "Provider: Google Gemini", NL, NL>>

LogFooter == <<NL, "=== Fine conversazione ===", NL>>

\* save_conversation_log: the file name and everything written to the file (the
\* two datetime.now() of the function read the same second).
save_conversation_log(msgs, now) ==
    [name |-> <<"logs/conversation_", StrfStamp(now), ".txt">>,
     text |-> LogHeader(now) \o TurnLines(msgs) \o LogFooter]

\* ------------------------------------------------------------------ handlers

Init ==
    /\ messages = [v \in Variants |-> <<>>]
    /\ conversation_started = [v \in Variants |-> FALSE]
    /\ pc = "idle"
    /\ request = [v \in Variants |-> NoRequest]
    /\ response = NoResponse
    /\ logfile = [v \in Variants |-> NoFile]
    /\ clock = 0
    /\ lastOp = "init"
    /\ outcomes = <<>>
    /\ stopped = FALSE
    /\ preLen = [v \in Variants |-> 0]
    /\ restarted = FALSE

\* request, response, logfile and preLen describe the script run that
\* ran last: the next run starts without them (the log files are never read back).
\*
\* A widget event that arrives while a script run is blocked in send_message
\* stops that run at its next st.* call (st.markdown(response), before the
\* assistant turn is appended) and starts the run that handles the event; no
\* widget is disabled during a run, so no handler is guarded by pc.
StopsRun == pc = "inflight"

\* chat_input returned a prompt: the user turn is appended, get_response builds
\* the history from the session's messages and sends the prompt.
Submit(prompt) ==
    /\ \A v \in Variants : Len(messages[v]) + 2 <= MaxTurns
    /\ messages' = [v \in Variants |-> AppendTurn(messages[v], UserTurn(prompt, clock))]
    /\ request' = [v \in Variants |->
                      [history |-> chat_history(messages'[v]), message |-> prompt]]
    /\ pc' = "inflight"
    /\ lastOp' = "submit"
    /\ stopped' = (stopped \/ StopsRun)
    /\ preLen' = [v \in Variants |-> Len(messages[v])]
    /\ response' = NoResponse
    /\ logfile' = [v \in Variants |-> NoFile]
    /\ UNCHANGED <<conversation_started, clock, outcomes, restarted>>

\* send_message returned or raised: get_response interprets the result and the
\* assistant turn is appended.
Receive(resp) ==
    /\ pc = "inflight"
    /\ messages' = [v \in Variants |->
                       AppendTurn(messages[v], AssistantTurn(GetResponse(v, resp), clock))]
    /\ conversation_started' = [v \in Variants |-> TRUE]
    /\ pc' = "idle"
    /\ response' = resp
    /\ lastOp' = "receive"
    /\ outcomes' = Append(outcomes, resp.kind)
    /\ UNCHANGED <<request, logfile, clock, stopped, preLen, restarted>>

\* The "Nuova Conversazione" button.
NuovaConversazione ==
    /\ messages' = [v \in Variants |-> ClearedMessages(messages[v])]
    /\ conversation_started' = [v \in Variants |-> FALSE]
    /\ pc' = "idle"
    /\ lastOp' = "reset"
    /\ outcomes' = <<>>
    /\ stopped' = FALSE
    /\ restarted' = (restarted \/ \E v \in Variants : messages[v] # <<>>)
    /\ request' = [v \in Variants |-> NoRequest]
    /\ response' = NoResponse
    /\ logfile' = [v \in Variants |-> NoFile]
    /\ preLen' = [v \in Variants |-> 0]
    /\ UNCHANGED clock

\* The "Salva Conversazione" button, with a non-empty transcript.  makedirs or
\* open may raise: the error reaches the page and no file is written.
SalvaConversazione(written) ==
    /\ \E v \in Variants : messages[v] # <<>>
    /\ logfile' = [v \in Variants |->
                      IF messages[v] # <<>> /\ written
                      THEN save_conversation_log(messages[v], clock)
                      ELSE NoFile]
    /\ pc' = "idle"
    /\ lastOp' = "save"
    /\ stopped' = (stopped \/ StopsRun)
    /\ request' = [v \in Variants |-> NoRequest]
    /\ response' = NoResponse
    /\ preLen' = [v \in Variants |-> 0]
    /\ UNCHANGED <<messages, conversation_started, clock, outcomes, restarted>>

\* The wall clock advances.
Tick ==
    /\ clock < MaxClock
    /\ clock' = clock + 1
    /\ UNCHANGED <<messages, conversation_started, pc, request, response, logfile,
                   lastOp, outcomes, stopped, preLen, restarted>>

Next ==
    \/ \E prompt \in Prompts : Submit(prompt)
    \/ \E resp \in Results : Receive(resp)
    \/ NuovaConversazione
    \/ \E written \in BOOLEAN : SalvaConversazione(written)
    \/ Tick

Spec == Init /\ [][Next]_vars

\* ------------------------------------------------------------------ properties

IsPrefix(s, t) == Len(s) <= Len(t) /\ SubSeq(t, 1, Len(s)) = s

\* sub occurs in s as a run of consecutive tokens.
Contains(s, sub) ==
    \E i \in 0..Len(s) : i + Len(sub) <= Len(s) /\ SubSeq(s, i + 1, i + Len(sub)) = sub

Alternates(msgs) ==
    \A i \in 1..Len(msgs) : msgs[i].role = (IF i % 2 = 1 THEN "user" ELSE "assistant")

LastContent(v) == messages[v][Len(messages[v])].content

\* The lines of a text: the runs of tokens between line breaks.
RECURSIVE SplitLinesFrom(_, _, _)
SplitLinesFrom(text, cur, acc) ==
    IF text = <<>> THEN (IF cur = <<>> THEN acc ELSE Append(acc, cur))
    ELSE IF Head(text) = NL THEN SplitLinesFrom(Tail(text), <<>>, Append(acc, cur))
    ELSE SplitLinesFrom(Tail(text), Append(cur, Head(text)), acc)
SplitLines(text) == SplitLinesFrom(text, <<>>, <<>>)

IsErrorTurn(content) == content # <<>> /\ Head(content) \in {"Errore: ", "**Errore:** "}

CarriesProviderText(content) == Contains(content, ProviderText)

Completed == lastOp = "receive"

\* C1: after N submissions that all completed since the session started or was
\* last reset, whatever their results, the transcript holds exactly 2N turns and
\* the roles alternate user, assistant, ... from the first turn.
C1_TwoTurnsPerSubmission ==
    (pc = "idle" /\ ~stopped) =>
        \A v \in Variants :
            /\ Len(messages[v]) = 2 * Len(outcomes)
            /\ Alternates(messages[v])

C1_Witness ==
    /\ pc = "idle" /\ ~stopped /\ restarted
    /\ outcomes = <<"fail", "ok">>
    /\ \A v \in Variants : Len(messages[v]) = 4

\* C2: the history handed to the API is the projection (assistant to model, user
\* kept) of the transcript as it was before the submission, and the new user text
\* is handed over once, as the message.
Projected(msgs) ==
    [i \in 1..Len(msgs) |->
        [role |-> IF msgs[i].role = "assistant" THEN "model" ELSE "user",
         parts |-> <<msgs[i].content>>]]

C2_HistoryIsPriorTranscript ==
    pc = "inflight" =>
        \A v \in Variants :
            /\ request[v].history = Projected(SubSeq(messages[v], 1, preLen[v]))
            /\ request[v].message = LastContent(v)

\* C3: a submission whose API call fails still appends the user turn and then an
\* assistant turn that contains the failure's message, and so does every
\* submission completed after it.
C3_FailureStillAppends ==
    (Completed /\ \E k \in 1..Len(outcomes) : outcomes[k] = "fail") =>
        \A v \in Variants :
            LET n == Len(messages[v]) IN
            /\ n = preLen[v] + 2
            /\ messages[v][n - 1].role = "user"
            /\ messages[v][n].role = "assistant"
            /\ response.kind = "fail" => Contains(messages[v][n].content, response.msg)

C3_Witness ==
    /\ Completed
    /\ outcomes = <<"fail", "fail">>
    /\ \A v \in Variants : Contains(LastContent(v), response.msg)

\* C4: no handler mutates the transcript while a submission is in flight, so
\* every user turn is followed by its assistant turn, except the turn of the
\* submission that is in flight.
C4_NoOrphanUserTurn ==
    \A v \in Variants :
        \A i \in 1..Len(messages[v]) :
            messages[v][i].role = "user" =>
                \/ i < Len(messages[v]) /\ messages[v][i + 1].role = "assistant"
                \/ i = Len(messages[v]) /\ pc = "inflight"

\* C5: every step leaves the transcript a prefix of the new transcript, except a
\* reset, which leaves it empty.
C5_AppendOnly ==
    [][\A v \in Variants :
          \/ IsPrefix(messages[v], messages'[v])
          \/ lastOp' = "reset" /\ messages'[v] = <<>>]_vars

C5_Witness ==
    /\ lastOp = "save" /\ restarted
    /\ \A v \in Variants : Len(messages[v]) = 4 /\ logfile[v] # NoFile

\* C6: a reset leaves the transcript empty whatever it held, and the first
\* submission completed after it leaves two turns.
C6_ResetEmpties ==
    /\ lastOp = "reset" => \A v \in Variants : messages[v] = <<>>
    /\ (Completed /\ Len(outcomes) = 1 /\ ~stopped) =>
           \A v \in Variants : Len(messages[v]) = 2

C6_Witness ==
    /\ restarted /\ Completed /\ Len(outcomes) = 1 /\ ~stopped
    /\ \A v \in Variants : Len(messages[v]) = 2

\* C7: when the first candidate finished with MAX_TOKENS the assistant turn is the
\* truncation advisory followed by the partial text, if any, and never an error
\* turn.
MaxTokensCase ==
    /\ Completed /\ response.kind = "ok" /\ response.candidates # <<>>
    /\ response.candidates[1].finish_reason = 2

C7_MaxTokensIsTruncatedTurn ==
    MaxTokensCase =>
        \A v \in Variants :
            /\ LastContent(v) = TruncatedPrefix2 \o Concat(response.candidates[1].parts)
            /\ ~IsErrorTurn(LastContent(v))

\* C8: with zero candidates the assistant turn contains the blocked-response
\* advisory and the finish-status table with its 6 entries, codes 0 to 5.
NoCandidatesCase == Completed /\ response.kind = "ok" /\ response.candidates = <<>>

BlockedAdvisories ==
    {"Risposta bloccata dai filtri di sicurezza. Prova a riformulare.",
     "Risposta bloccata dai filtri di sicurezza. Prova a riformulare la domanda."}

HasBlockedAdvisory(content) == \E i \in 1..Len(content) : content[i] \in BlockedAdvisories

\* The codes of the table entries "- <code> = <description>" of a content.
TableCodes(content) ==
    {c \in FinishCodes :
        \E i \in 1..Len(content) :
            /\ i + 4 <= Len(content)
            /\ SubSeq(content, i, i + 2) = <<"- ", CodeStr(c), " = ">>
            /\ content[i + 3] # NL
            /\ content[i + 4] = NL}

HasFullTable(content) == TableCodes(content) = 0..5

C8_NoCandidatesCarriesTable ==
    NoCandidatesCase =>
        \A v \in Variants : HasBlockedAdvisory(LastContent(v)) /\ HasFullTable(LastContent(v))

\* C8, amended: with zero candidates app2.py's turn contains the advisory and the
\* table with its 6 entries; app.py's turn is the advisory alone.
C8_NoCandidatesByVariant ==
    NoCandidatesCase =>
        /\ HasBlockedAdvisory(LastContent("app2")) /\ HasFullTable(LastContent("app2"))
        /\ Len(LastContent("app")) = 1 /\ HasBlockedAdvisory(LastContent("app"))

C8_Witness == NoCandidatesCase /\ Len(outcomes) = 2

\* C9: a file the export wrote holds the header lines, then one line per turn,
\* "[timestamp] ROLE: content" in transcript order, then the closing lines.
HeaderLines == Len(SplitLines(LogHeader(0)))
ClosingLines == Len(SplitLines(LogFooter))

C9_OneLinePerTurn ==
    (lastOp = "save" /\ ~stopped) =>
        \A v \in {w \in Variants : logfile[w] # NoFile} :
            LET lines == SplitLines(logfile[v].text)
                n == Len(messages[v])
            IN  /\ Len(lines) = HeaderLines + n + ClosingLines
                /\ \A i \in 1..n :
                       lines[HeaderLines + i] =
                           <<"[", messages[v][i].timestamp, "] ",
                             Upper(messages[v][i].role), ": ">> \o messages[v][i].content

\* C10: the two variants keep transcripts of equal length with the same roles and
\* the same user contents, and an assistant turn carries the provider's text in
\* one exactly when it does in the other.
C10_VariantsAgree ==
    LET a == messages["app"]
        b == messages["app2"]
    IN  /\ Len(a) = Len(b)
        /\ \A i \in 1..Len(a) :
               /\ a[i].role = b[i].role
               /\ a[i].role = "user" => a[i].content = b[i].content
               /\ a[i].role = "assistant" =>
                      (CarriesProviderText(a[i].content) <=> CarriesProviderText(b[i].content))

C10_Witness ==
    /\ Completed /\ restarted
    /\ LastContent("app") # LastContent("app2")
    /\ CarriesProviderText(LastContent("app"))
    /\ CarriesProviderText(LastContent("app2"))

====
